---- MODULE Spec2Model ----
(***************************************************************************)
(* Position ledger of the trading application (src/proba.py).              *)
(*                                                                         *)
(* The ledger is the sqlite table `portfolio` of the file trading_app.db.  *)
(* Every handler opens its own connection (DatabaseManager()) and every    *)
(* execute_query commits its statement, so the unit of atomicity of the    *)
(* store is one SQL statement.  The state below holds the table, the       *)
(* clock, and for every running instance of the application its portfolio  *)
(* tree view (the rows loaded at its last refresh), its open "Modify       *)
(* Position" windows and the position of its handler in flight.            *)
(*                                                                         *)
(* Spec is one running instance: Tk's event loop runs one handler at a     *)
(* time, each to its end.  SpecShared is two instances on the same         *)
(* database file, their handlers interleaved statement by statement.       *)
(* In both the price feed answers every lookup; SpecPrices and             *)
(* SpecPortfolio are the price cache and the portfolio listing under a     *)
(* feed that may fail, SpecAtr the ATR stop of the calculator, SpecStats   *)
(* and SpecViews the statistics and the tabs that show them.               *)
(*                                                                         *)
(* Prices are integers (the code uses floats); NULL columns are the empty  *)
(* sequence and a set column is a one-element sequence.  The source file   *)
(* loses its indentation in places (lines 485-537, 539-649, 867-990); the  *)
(* functions there are read as the methods their `self` parameter and      *)
(* their callers make them.                                                *)
(***************************************************************************)
EXTENDS Integers, Sequences, FiniteSets, TLC

VARIABLES db, now, tree, modwin, msg, pc, loc, hist, call, views, market

vars == <<db, now, tree, modwin, msg, pc, loc, hist, call, views, market>>

(* ------------------------------ bounds --------------------------------- *)
\* Rows of the table, positions opened by save_trade, Modify windows per instance.
MaxRecords == 3
MaxPositions == 1
MaxModifyWindows == 1

(* ------------------------- program constants --------------------------- *)
\* TradingApp.account_balance / PositionCalculator(account_balance=10000.0)
AccountBalance == 10000
\* RiskManagement(max_risk_per_trade=0.02), in per cent
MaxRiskPerTradePct == 2
\* validate_trade: minimal reward/risk ratio
MinRewardRisk == 2

\* Instances of the application running on the same trading_app.db.
Apps == {"a1", "a2"}

\* What the user types into the calculator form: entry, stop, take profit.
TradeSetups ==
    { [symbol |-> "AAPL", entry |-> 300, stop |-> 240, take |-> 420, type |-> "Long"],
      [symbol |-> "AAPL", entry |-> 300, stop |-> 400, take |-> 100, type |-> "Short"],
      [symbol |-> "AAPL", entry |-> 300, stop |-> 100, take |-> 400, type |-> "Long"],
      [symbol |-> "AAPL", entry |-> 300, stop |-> 300, take |-> 420, type |-> "Short"] }

\* Prices the market data manager may report when a position is closed.
MarketPrices == {280, 330}

\* Values typed into the stop loss / take profit entries of a Modify window.
ModifyInputs == { [stop |-> 270, take |-> 390] }

\* Quantities typed into the partial close dialog.
DialogQuantities == 0 .. 4

None == <<>>
Some(v) == <<v>>
IsSet(o) == o # None
Val(o) == o[1]

Abs(x) == IF x < 0 THEN -x ELSE x

(* --------------------------- RiskManagement ---------------------------- *)
\* Variant: the size is rounded up.
calculate_position_size_RoundsUp(entry_price, stop_loss) ==
    LET risk_per_share == Abs(entry_price - stop_loss)
    IN  IF risk_per_share = 0
        THEN 0
        ELSE (AccountBalance * MaxRiskPerTradePct + 100 * risk_per_share - 1)
                 \div (100 * risk_per_share)

\* int(risk_amount / risk_per_share), 0 when risk_per_share == 0
calculate_position_size(entry_price, stop_loss) ==
    LET risk_per_share == Abs(entry_price - stop_loss)
    IN  IF risk_per_share = 0
        THEN 0
        ELSE (AccountBalance * MaxRiskPerTradePct) \div (100 * risk_per_share)

\* Variant: the ratio rule also rejects a ratio of exactly the minimum.
validate_trade_RejectsAtMinimum(entry_price, stop_loss, take_profit) ==
    LET risk == Abs(entry_price - stop_loss)
        reward == Abs(take_profit - entry_price)
    IN  IF risk = 0 THEN [ok |-> FALSE, reason |-> "error"]
        ELSE IF reward <= MinRewardRisk * risk
             THEN [ok |-> FALSE, reason |-> "ratio"]
        ELSE IF 100 * risk > AccountBalance * MaxRiskPerTradePct
             THEN [ok |-> FALSE, reason |-> "budget"]
        ELSE [ok |-> TRUE, reason |-> "ok"]

\* Variant: no budget rule.
validate_trade_NoBudgetRule(entry_price, stop_loss, take_profit) ==
    LET risk == Abs(entry_price - stop_loss)
        reward == Abs(take_profit - entry_price)
    IN  IF risk = 0 THEN [ok |-> FALSE, reason |-> "error"]
        ELSE IF reward < MinRewardRisk * risk
             THEN [ok |-> FALSE, reason |-> "ratio"]
        ELSE [ok |-> TRUE, reason |-> "ok"]

\* Variant: a zero risk passes the ratio rule (an infinite ratio).
validate_trade_ZeroRiskPasses(entry_price, stop_loss, take_profit) ==
    LET risk == Abs(entry_price - stop_loss)
    IN  IF 100 * risk > AccountBalance * MaxRiskPerTradePct
        THEN [ok |-> FALSE, reason |-> "budget"]
        ELSE IF risk # 0 /\ Abs(take_profit - entry_price) < MinRewardRisk * risk
             THEN [ok |-> FALSE, reason |-> "ratio"]
        ELSE [ok |-> TRUE, reason |-> "ok"]

\* validate_trade: reward / risk raises ZeroDivisionError when risk == 0, which the
\* except clause turns into (False, "Error validating trade: ...").
validate_trade(entry_price, stop_loss, take_profit) ==
    LET risk == Abs(entry_price - stop_loss)
        reward == Abs(take_profit - entry_price)
    IN  IF risk = 0 THEN [ok |-> FALSE, reason |-> "error"]
        ELSE IF reward < MinRewardRisk * risk
             THEN [ok |-> FALSE, reason |-> "ratio"]
        ELSE IF 100 * risk > AccountBalance * MaxRiskPerTradePct
             THEN [ok |-> FALSE, reason |-> "budget"]
        ELSE [ok |-> TRUE, reason |-> "ok"]

(* ------------------------------ the table ------------------------------ *)
Ids(d) == 1 .. Len(d)

\* INSERT of save_trade: the columns it names; the others are NULL.
NewOpenRow(symbol, entry_price, stop_loss, take_profit, quantity, date, trade_type) ==
    [ symbol |-> symbol, entry_price |-> entry_price, exit_price |-> None,
      stop_loss |-> Some(stop_loss), take_profit |-> Some(take_profit),
      quantity |-> quantity, entry_date |-> date, exit_date |-> None,
      pnl |-> None, trade_type |-> trade_type, status |-> "Open",
      original_quantity |-> None ]

(* ------------------------------- market data --------------------------------- *)
Symbols == {"AAPL", "MSFT"}

\* MarketDataManager.__init__: cache_timeout, seconds
CacheTimeout == 60

\* self.cache = {}
EmptyCache == [s \in Symbols |-> None]

\* What ticker.history(period='1d') does for a symbol: a frame with a last close,
\* an empty frame, or an exception.
FeedOutcomes ==
    { [kind |-> "price", price |-> p] : p \in {280, 330} } \cup
    { [kind |-> "empty"], [kind |-> "raises"] }

Fresh_AtTimeout(entry, current_time) == current_time - entry.timestamp <= CacheTimeout

\* current_time - cached_data['timestamp'] < self.cache_timeout
Fresh(entry, current_time) == current_time - entry.timestamp < CacheTimeout

\* get_real_time_price: the cached price of a fresh entry, else a fetch; a fetched
\* price is cached with the time read at the start of the call; an empty frame and
\* an exception give None and leave the cache alone.
get_real_time_price(cache, symbol, outcome, current_time) ==
    IF IsSet(cache[symbol]) /\ Fresh(Val(cache[symbol]), current_time)
    THEN [price |-> Some(Val(cache[symbol]).price), cache |-> cache, fetched |-> FALSE]
    ELSE IF outcome.kind = "price"
         THEN [price |-> Some(outcome.price),
               cache |-> [cache EXCEPT ![symbol] =
                             Some([price |-> outcome.price, timestamp |-> current_time])],
               fetched |-> TRUE]
         ELSE [price |-> None, cache |-> cache, fetched |-> TRUE]

\* The feed while every lookup succeeds.
FeedUp == [s \in Symbols |-> [kind |-> "price", price |-> 280]]

\* ORDER BY entry_date DESC over the Open rows (equal dates in rowid order).
RECURSIVE OrderByEntryDateDesc(_, _)
OrderByEntryDateDesc(d, ids) ==
    IF ids = {} THEN << >>
    ELSE LET first == CHOOSE i \in ids :
                          \A j \in ids : \/ d[j].entry_date < d[i].entry_date
                                         \/ d[j].entry_date = d[i].entry_date /\ j >= i
         IN  <<first>> \o OrderByEntryDateDesc(d, ids \ {first})

\* The loop of load_positions from row k of the result set on: a row without a
\* price is skipped; pnl / (entry_price * quantity) raises ZeroDivisionError when the
\* product is 0, which ends the loop in the handler's except; else the row is listed.
RECURSIVE LoadFrom(_, _, _, _, _, _)
LoadFrom(d, order, k, st, feed, current_time) ==
    IF k > Len(order) THEN st
    ELSE LET id == order[k]
             got == get_real_time_price(st.cache, d[id].symbol, feed[d[id].symbol],
                                        current_time)
         IN  IF ~IsSet(got.price)
             THEN LoadFrom(d, order, k + 1, [st EXCEPT !.cache = got.cache],
                           feed, current_time)
             ELSE IF d[id].entry_price * d[id].quantity = 0
                  THEN [st EXCEPT !.cache = got.cache, !.raised = TRUE]
                  ELSE LoadFrom(d, order, k + 1,
                                [tree |-> [j \in DOMAIN st.tree \cup {id} |->
                                              IF j = id THEN d[id].quantity ELSE st.tree[j]],
                                 cache |-> got.cache,
                                 raised |-> FALSE],
                                feed, current_time)

\* refresh: the tree is emptied, then load_positions fills it.
load_positions(d, cache, feed, current_time) ==
    LoadFrom(d, OrderByEntryDateDesc(d, { j \in Ids(d) : d[j].status = "Open" }), 1,
             [tree |-> << >>, cache |-> cache, raised |-> FALSE], feed, current_time)

\* The rows the portfolio tree lists after a refresh, id -> quantity, while the
\* feed is up.
OpenRows(d) == load_positions(d, EmptyCache, FeedUp, 0).tree

\* The refresh ended in the "Error" box of load_positions.
RefreshRaises(d) == load_positions(d, EmptyCache, FeedUp, 0).raised

\* execute_close_position, line 460: the long formula, whatever the trade type.
ClosePnl(entry_price, exit_price, quantity) ==
    (exit_price - entry_price) * quantity

\* execute_partial_close, lines 502-503: signed by trade type.
PartialPnl(trade_type, entry_price, exit_price, close_quantity) ==
    IF trade_type = "Long"
    THEN (exit_price - entry_price) * close_quantity
    ELSE (entry_price - exit_price) * close_quantity

\* Variant: the close also stamps entry_date.
UpdateClosed_StampsEntryDate(d, id, exit_price, date, pnl) ==
    [ d EXCEPT ![id] = [ @ EXCEPT !.exit_price = Some(exit_price),
                                  !.exit_date = Some(date),
                                  !.entry_date = date,
                                  !.pnl = Some(pnl),
                                  !.status = "Closed" ] ]

\* Variant: the UPDATE closes every row of the symbol (WHERE symbol = ...).
UpdateClosed_BySymbol(d, id, exit_price, date, pnl) ==
    [ i \in Ids(d) |->
        IF d[i].symbol = d[id].symbol
        THEN [ d[i] EXCEPT !.exit_price = Some(exit_price),
                           !.exit_date = Some(date),
                           !.pnl = Some(pnl),
                           !.status = "Closed" ]
        ELSE d[i] ]

\* UPDATE portfolio SET exit_price, exit_date, pnl, status = 'Closed' WHERE id = ?
\* (no condition on status).
UpdateClosed(d, id, exit_price, date, pnl) ==
    [ d EXCEPT ![id] = [ @ EXCEPT !.exit_price = Some(exit_price),
                                  !.exit_date = Some(date),
                                  !.pnl = Some(pnl),
                                  !.status = "Closed" ] ]

\* Variant: the backfill takes the new quantity instead of the stored one.
UpdateRemainder_BackfillsNew(d, id, remaining_quantity) ==
    [ d EXCEPT ![id] = [ @ EXCEPT !.quantity = remaining_quantity,
                                  !.original_quantity =
                                      IF IsSet(@) THEN @ ELSE Some(remaining_quantity) ] ]

\* Variant: every split overwrites original_quantity with the quantity before it.
UpdateRemainder_BackfillsAlways(d, id, remaining_quantity) ==
    [ d EXCEPT ![id] = [ @ EXCEPT !.quantity = remaining_quantity,
                                  !.original_quantity = Some(d[id].quantity) ] ]

\* Variant: the closed part is inserted with its exit price and date only.
ClosedLotRow_WithoutPnl(row, close_quantity, exit_price, date, pnl) ==
    [ symbol |-> row.symbol, entry_price |-> row.entry_price,
      exit_price |-> Some(exit_price), stop_loss |-> row.stop_loss,
      take_profit |-> row.take_profit, quantity |-> close_quantity,
      entry_date |-> row.entry_date, exit_date |-> Some(date),
      pnl |-> None, trade_type |-> row.trade_type, status |-> "Closed",
      original_quantity |-> Some(close_quantity) ]

\* UPDATE portfolio SET quantity = ?, original_quantity =
\* COALESCE(original_quantity, quantity) WHERE id = ?  (quantity on the right is the
\* stored one, before the update).
UpdateRemainder(d, id, remaining_quantity) ==
    [ d EXCEPT ![id] = [ @ EXCEPT !.quantity = remaining_quantity,
                                  !.original_quantity =
                                      IF IsSet(@) THEN @ ELSE Some(d[id].quantity) ] ]

\* INSERT of the closed part: entry fields of the row read, status 'Closed'.
ClosedLotRow(row, close_quantity, exit_price, date, pnl) ==
    [ symbol |-> row.symbol, entry_price |-> row.entry_price,
      exit_price |-> Some(exit_price), stop_loss |-> row.stop_loss,
      take_profit |-> row.take_profit, quantity |-> close_quantity,
      entry_date |-> row.entry_date, exit_date |-> Some(date),
      pnl |-> Some(pnl), trade_type |-> row.trade_type, status |-> "Closed",
      original_quantity |-> Some(close_quantity) ]

\* Variant: the UPDATE also sets original_quantity.
UpdateStops_SetsOriginal(d, id, stop_loss, take_profit) ==
    [ d EXCEPT ![id] = [ @ EXCEPT !.stop_loss = Some(stop_loss),
                                  !.take_profit = Some(take_profit),
                                  !.original_quantity = Some(d[id].quantity) ] ]

\* UPDATE portfolio SET stop_loss = ?, take_profit = ? WHERE id = ?
UpdateStops(d, id, stop_loss, take_profit) ==
    [ d EXCEPT ![id] = [ @ EXCEPT !.stop_loss = Some(stop_loss),
                                  !.take_profit = Some(take_profit) ] ]

\* execute_close_position as one unit: the SELECT ... [0] raises on an unknown id
\* (caught: error box, nothing written); otherwise the row is closed.
ExecuteClosePosition(d, id, exit_price, date) ==
    IF id \notin Ids(d)
    THEN [db |-> d, ok |-> FALSE]
    ELSE [db |-> UpdateClosed(d, id, exit_price, date,
                              ClosePnl(d[id].entry_price, exit_price, d[id].quantity)),
          ok |-> TRUE]

\* Variant: the branch splits a lot also when nothing remains.
SplitsLot_AlsoAtZero(remaining_quantity) == remaining_quantity >= 0

\* The branch of execute_partial_close, line 505.
SplitsLot(remaining_quantity) == remaining_quantity > 0

\* execute_partial_close as one unit.
ExecutePartialClose(d, id, close_quantity, exit_price, date) ==
    IF id \notin Ids(d)
    THEN [db |-> d, ok |-> FALSE, split |-> FALSE]
    ELSE LET row == d[id]
             remaining_quantity == row.quantity - close_quantity
             pnl == PartialPnl(row.trade_type, row.entry_price, exit_price, close_quantity)
         IN  IF SplitsLot(remaining_quantity)
             THEN [db |-> Append(UpdateRemainder(d, id, remaining_quantity),
                                 ClosedLotRow(row, close_quantity, exit_price, date, pnl)),
                   ok |-> TRUE, split |-> TRUE]
             ELSE [db |-> ExecuteClosePosition(d, id, exit_price, date).db,
                   ok |-> TRUE, split |-> FALSE]

\* PartialCloseDialog.validate_and_close: the check against the quantity of the
\* tree row the dialog was opened with.
DialogAccepts(quantity, max_quantity) == 0 < quantity /\ quantity <= max_quantity

(* ------------------------------- state --------------------------------- *)
\* db     the rows of table portfolio, by id (AUTOINCREMENT: 1, 2, ...)
\* now    the clock read by datetime.now(); every read is a later second
\* tree   per instance, the rows of its portfolio tree view: id -> quantity shown
\* modwin per instance, the ids its open Modify windows keep
\* msg    the title of the last message box shown
\* pc/loc per instance, the statement its handler in flight is at, and its locals
\* hist   history: for every row the position it stems from and the quantity it
\*        was inserted with (the table itself keeps no such link)
\* call   a method called on its own (RiskManagement, the ATR stop): its arguments
\*        and what it returns or sets
\* views  what the Statistics tab and the Closed Trades tab show
\* market a MarketDataManager on its own: its price cache, the time it reads,
\*        its last lookup
Idle == "idle"
NoLoc == [id |-> 0]
NoCall == [op |-> "none"]
\* The tabs as built on an empty table: labels without values, an empty tree.
NoViews == [statistics |-> None, closed_trades |-> {}]
NoMarket == [op |-> "none"]

Init ==
    /\ db = << >>
    /\ now = 0
    /\ tree = [a \in Apps |-> << >>]
    /\ modwin = [a \in Apps |-> {}]
    /\ msg = "none"
    /\ pc = [a \in Apps |-> Idle]
    /\ loc = [a \in Apps |-> NoLoc]
    /\ hist = << >>
    /\ call = NoCall
    /\ views = NoViews
    /\ market = NoMarket

\* PortfolioTracker.refresh / load_positions (button, 30 s timer).
Refresh(a) ==
    /\ pc[a] = Idle
    /\ tree[a] # OpenRows(db) \/ (RefreshRaises(db) /\ msg # "Error")
    /\ tree' = [tree EXCEPT ![a] = OpenRows(db)]
    /\ msg' = IF RefreshRaises(db) THEN "Error" ELSE msg
    /\ UNCHANGED <<call, views, market, db, now, modwin, pc, loc, hist>>

\* calculate_position followed by save_trade: the size comes from the sizer, the row
\* is inserted without asking validate_trade, the portfolio view is refreshed.
SaveTrade(a, s) ==
    /\ pc[a] = Idle
    /\ Len(db) < MaxRecords
    /\ Cardinality({ i \in Ids(db) : hist[i].root = i }) < MaxPositions
    /\ s.entry > 0 /\ s.stop > 0 /\ s.take > 0
    /\ LET position_size == calculate_position_size(s.entry, s.stop)
           d2 == Append(db, NewOpenRow(s.symbol, s.entry, s.stop, s.take,
                                       position_size, now, s.type))
       IN  /\ db' = d2
           /\ hist' = Append(hist, [root |-> Len(d2), opened |-> position_size])
           /\ tree' = [tree EXCEPT ![a] = OpenRows(d2)]
           /\ msg' = IF RefreshRaises(d2) THEN "Error" ELSE "Success"
    /\ now' = now + 1
    /\ UNCHANGED <<call, views, market, modwin, pc, loc>>

\* The rows a handler's writes add to the history: a lot belongs to the position it
\* was split from.
HistAfter(h, d2, id, close_quantity) ==
    IF Len(d2) > Len(h)
    THEN Append(h, [root |-> h[id].root, opened |-> close_quantity])
    ELSE h

\* close_position, "Da": the whole position of the selected tree row at the market
\* price, through execute_close_position.
ClosePositionFull(a, id, price) ==
    /\ pc[a] = Idle
    /\ id \in DOMAIN tree[a]
    /\ LET r == ExecuteClosePosition(db, id, price, now)
       IN  /\ db' = r.db
           /\ tree' = [tree EXCEPT ![a] = IF r.ok THEN OpenRows(r.db) ELSE @]
           /\ msg' = IF r.ok THEN "Success" ELSE "Error"
           /\ now' = IF r.ok THEN now + 1 ELSE now
    /\ UNCHANGED <<call, views, market, modwin, pc, loc, hist>>

\* close_position, "Ne": the dialog took the quantity, execute_partial_close runs.
ClosePositionPartial(a, id, quantity, price) ==
    /\ pc[a] = Idle
    /\ id \in DOMAIN tree[a]
    /\ DialogAccepts(quantity, tree[a][id])
    /\ LET r == ExecutePartialClose(db, id, quantity, price, now)
       IN  /\ Len(r.db) <= MaxRecords
           /\ db' = r.db
           /\ hist' = HistAfter(hist, r.db, id, quantity)
           /\ tree' = [tree EXCEPT ![a] = IF r.ok THEN OpenRows(r.db) ELSE @]
           /\ msg' = IF r.ok THEN "Uspjeh" ELSE "Greska"
           /\ now' = IF r.ok THEN now + 1 ELSE now
    /\ UNCHANGED <<call, views, market, modwin, pc, loc>>

\* The dialog refuses the quantity: an error box, the dialog stays, nothing is written.
DialogRejects(a, id, quantity) ==
    /\ pc[a] = Idle
    /\ id \in DOMAIN tree[a]
    /\ ~DialogAccepts(quantity, tree[a][id])
    /\ msg' = "Greska"
    /\ UNCHANGED <<call, views, market, db, now, tree, modwin, pc, loc, hist>>

\* modify_position: a window for the selected tree row; it keeps the row's id.
OpenModifyWindow(a, id) ==
    /\ pc[a] = Idle
    /\ id \in DOMAIN tree[a]
    /\ id \notin modwin[a]
    /\ Cardinality(modwin[a]) < MaxModifyWindows
    /\ modwin' = [modwin EXCEPT ![a] = @ \cup {id}]
    /\ UNCHANGED <<call, views, market, db, now, tree, msg, pc, loc, hist>>

\* The window is closed without saving.
CloseModifyWindow(a, id) ==
    /\ pc[a] = Idle
    /\ id \in modwin[a]
    /\ modwin' = [modwin EXCEPT ![a] = @ \ {id}]
    /\ UNCHANGED <<call, views, market, db, now, tree, msg, pc, loc, hist>>

\* save_modifications: the UPDATE by the id the window kept, then destroy and refresh.
SaveModifications(a, id, stop_loss, take_profit) ==
    /\ pc[a] = Idle
    /\ id \in modwin[a]
    /\ db' = UpdateStops(db, id, stop_loss, take_profit)
    /\ modwin' = [modwin EXCEPT ![a] = @ \ {id}]
    /\ tree' = [tree EXCEPT ![a] = OpenRows(db')]
    /\ msg' = "Success"
    /\ UNCHANGED <<call, views, market, now, pc, loc, hist>>

\* One running instance: Tk's event loop runs one handler at a time, each to its end.
MainApp == "a1"

Next ==
    \/ \E s \in TradeSetups : SaveTrade(MainApp, s)
    \/ \E id \in 1 .. MaxRecords, p \in MarketPrices : ClosePositionFull(MainApp, id, p)
    \/ \E id \in 1 .. MaxRecords, q \in DialogQuantities, p \in MarketPrices :
           ClosePositionPartial(MainApp, id, q, p)
    \/ \E id \in 1 .. MaxRecords, q \in DialogQuantities : DialogRejects(MainApp, id, q)
    \/ \E id \in 1 .. MaxRecords : OpenModifyWindow(MainApp, id)
    \/ \E id \in 1 .. MaxRecords : CloseModifyWindow(MainApp, id)
    \/ \E id \in 1 .. MaxRecords, m \in ModifyInputs :
           SaveModifications(MainApp, id, m.stop, m.take)

Spec == Init /\ [][Next]_vars

(* ------------- two instances on one database, statement by statement ---------- *)
\* Rows that handlers in flight are still going to insert.
PendingInserts == Cardinality({ a \in Apps : pc[a] \in {"pc_update", "pc_insert"} })

\* save_trade is one INSERT; the guard keeps room for the inserts in flight.
SharedSaveTrade(a, s) ==
    /\ Len(db) + PendingInserts < MaxRecords
    /\ SaveTrade(a, s)

\* execute_close_position, first statement: SELECT entry_price, quantity.
BeginClose(a, id, price) ==
    /\ pc[a] = Idle
    /\ id \in DOMAIN tree[a]
    /\ pc' = [pc EXCEPT ![a] = "cp_update"]
    /\ loc' = [loc EXCEPT ![a] = [id |-> id, exit_price |-> price, row |-> db[id],
                                  close_quantity |-> db[id].quantity]]
    /\ UNCHANGED <<call, views, market, db, now, tree, modwin, msg, hist>>

\* execute_close_position, second statement: the UPDATE with the values read, then
\* the refresh and the success box.
FinishClose(a) ==
    /\ pc[a] = "cp_update"
    /\ db' = UpdateClosed(db, loc[a].id, loc[a].exit_price, now,
                          ClosePnl(loc[a].row.entry_price, loc[a].exit_price,
                                   loc[a].row.quantity))
    /\ now' = now + 1
    /\ tree' = [tree EXCEPT ![a] = OpenRows(db')]
    /\ msg' = "Success"
    /\ pc' = [pc EXCEPT ![a] = Idle]
    /\ loc' = [loc EXCEPT ![a] = NoLoc]
    /\ UNCHANGED <<call, views, market, modwin, hist>>

\* execute_partial_close, first statement: SELECT of the row; the branch is taken on
\* the quantity read.
BeginPartial(a, id, quantity, price) ==
    /\ pc[a] = Idle
    /\ id \in DOMAIN tree[a]
    /\ DialogAccepts(quantity, tree[a][id])
    /\ SplitsLot(db[id].quantity - quantity) => Len(db) + PendingInserts < MaxRecords
    /\ pc' = [pc EXCEPT ![a] = IF SplitsLot(db[id].quantity - quantity)
                               THEN "pc_update" ELSE "cp_select"]
    /\ loc' = [loc EXCEPT ![a] = [id |-> id, exit_price |-> price, row |-> db[id],
                                  close_quantity |-> quantity]]
    /\ UNCHANGED <<call, views, market, db, now, tree, modwin, msg, hist>>

\* execute_partial_close, second statement: UPDATE of the remainder.
PartialUpdate(a) ==
    /\ pc[a] = "pc_update"
    /\ db' = UpdateRemainder(db, loc[a].id, loc[a].row.quantity - loc[a].close_quantity)
    /\ pc' = [pc EXCEPT ![a] = "pc_insert"]
    /\ UNCHANGED <<call, views, market, now, tree, modwin, msg, loc, hist>>

\* execute_partial_close, third statement: INSERT of the closed part, then the
\* refresh and the success box.
PartialInsert(a) ==
    /\ pc[a] = "pc_insert"
    /\ db' = Append(db, ClosedLotRow(loc[a].row, loc[a].close_quantity, loc[a].exit_price,
                                     now,
                                     PartialPnl(loc[a].row.trade_type,
                                                loc[a].row.entry_price,
                                                loc[a].exit_price,
                                                loc[a].close_quantity)))
    /\ hist' = Append(hist, [root |-> hist[loc[a].id].root,
                             opened |-> loc[a].close_quantity])
    /\ now' = now + 1
    /\ tree' = [tree EXCEPT ![a] = OpenRows(db')]
    /\ msg' = "Uspjeh"
    /\ pc' = [pc EXCEPT ![a] = Idle]
    /\ loc' = [loc EXCEPT ![a] = NoLoc]
    /\ UNCHANGED <<call, views, market, modwin>>

\* The else branch: execute_close_position reads the row again.
PartialCloseSelect(a) ==
    /\ pc[a] = "cp_select"
    /\ pc' = [pc EXCEPT ![a] = "cp_update"]
    /\ loc' = [loc EXCEPT ![a] = [@ EXCEPT !.row = db[loc[a].id]]]
    /\ UNCHANGED <<call, views, market, db, now, tree, modwin, msg, hist>>

NextShared ==
    \/ \E a \in Apps : Refresh(a)
    \/ \E a \in Apps, s \in TradeSetups : SharedSaveTrade(a, s)
    \/ \E a \in Apps, id \in 1 .. MaxRecords, p \in MarketPrices : BeginClose(a, id, p)
    \/ \E a \in Apps : FinishClose(a)
    \/ \E a \in Apps, id \in 1 .. MaxRecords, q \in DialogQuantities, p \in MarketPrices :
           BeginPartial(a, id, q, p)
    \/ \E a \in Apps : PartialUpdate(a)
    \/ \E a \in Apps : PartialInsert(a)
    \/ \E a \in Apps : PartialCloseSelect(a)
    \/ \E a \in Apps, id \in 1 .. MaxRecords, q \in DialogQuantities : DialogRejects(a, id, q)
    \/ \E a \in Apps, id \in 1 .. MaxRecords : OpenModifyWindow(a, id)
    \/ \E a \in Apps, id \in 1 .. MaxRecords : CloseModifyWindow(a, id)
    \/ \E a \in Apps, id \in 1 .. MaxRecords, m \in ModifyInputs :
           SaveModifications(a, id, m.stop, m.take)

SpecShared == Init /\ [][NextShared]_vars

(* ------------- one instance, statement by statement, the store failing -------- *)
\* execute_query raises on the UPDATE of the remainder: the failed statement is rolled
\* back (line 177), execute_partial_close's except shows the error box; the refresh
\* of line 529 is skipped.
PartialUpdateFails(a) ==
    /\ pc[a] = "pc_update"
    /\ msg' = "Greska"
    /\ pc' = [pc EXCEPT ![a] = Idle]
    /\ loc' = [loc EXCEPT ![a] = NoLoc]
    /\ UNCHANGED <<call, views, market, db, now, tree, modwin, hist>>

\* execute_query raises on the INSERT of the closed part: the rollback undoes the
\* INSERT only, the UPDATE before it was committed by its own execute_query (line 173).
PartialInsertFails(a) ==
    /\ pc[a] = "pc_insert"
    /\ msg' = "Greska"
    /\ pc' = [pc EXCEPT ![a] = Idle]
    /\ loc' = [loc EXCEPT ![a] = NoLoc]
    /\ UNCHANGED <<call, views, market, db, now, tree, modwin, hist>>

NextStoreFailure ==
    \/ Refresh(MainApp)
    \/ \E s \in TradeSetups : SaveTrade(MainApp, s)
    \/ \E id \in 1 .. MaxRecords, p \in MarketPrices : BeginClose(MainApp, id, p)
    \/ FinishClose(MainApp)
    \/ \E id \in 1 .. MaxRecords, q \in DialogQuantities, p \in MarketPrices :
           BeginPartial(MainApp, id, q, p)
    \/ PartialUpdate(MainApp)
    \/ PartialUpdateFails(MainApp)
    \/ PartialInsert(MainApp)
    \/ PartialInsertFails(MainApp)
    \/ PartialCloseSelect(MainApp)

SpecStoreFailure == Init /\ [][NextStoreFailure]_vars

(* ---------------------- RiskManagement, method by method --------------------- *)
\* Python's a / b: ZeroDivisionError when b == 0 (never an infinity), else the quotient,
\* kept as numerator and denominator.
TrueDivide(a, b) ==
    IF b = 0 THEN [raises |-> TRUE] ELSE [raises |-> FALSE, num |-> a, den |-> b]

\* calculate_risk_metrics: the ratio is 0 when risk_per_share is 0 (line 263); an
\* exception anywhere makes the method return None (line 275).
calculate_risk_metrics(position_size, entry_price, stop_loss, take_profit) ==
    LET risk_per_share == Abs(entry_price - stop_loss)
        reward_per_share == Abs(take_profit - entry_price)
        total_risk == risk_per_share * position_size
        total_reward == reward_per_share * position_size
        risk_reward_ratio == IF risk_per_share > 0
                             THEN TrueDivide(reward_per_share, risk_per_share)
                             ELSE TrueDivide(0, 1)
        risk_percentage == TrueDivide(total_risk * 100, AccountBalance)
    IN  IF risk_reward_ratio.raises \/ risk_percentage.raises
        THEN None
        ELSE Some([ risk_per_share |-> risk_per_share,
                    reward_per_share |-> reward_per_share,
                    total_risk |-> total_risk,
                    total_reward |-> total_reward,
                    risk_reward_ratio |-> risk_reward_ratio,
                    risk_percentage |-> risk_percentage ])

\* Arguments the methods are called with: entry, stop loss, take profit.
EntryPrices == {100, 150, 300}
StopPrices == {50, 95, 105, 145, 150, 240, 300}
TakePrices == {90, 155, 160, 420, 1050}

RiskCalls ==
    { [op |-> "risk", entry_price |-> e, stop_loss |-> s, take_profit |-> t,
       valid |-> None, size |-> None, metrics |-> None] :
          e \in EntryPrices, s \in StopPrices, t \in TakePrices }

\* A RiskManagement(10000, 0.02) and the arguments of its calls; the ledger is empty.
InitRisk ==
    /\ db = << >>
    /\ now = 0
    /\ tree = [a \in Apps |-> << >>]
    /\ modwin = [a \in Apps |-> {}]
    /\ msg = "none"
    /\ pc = [a \in Apps |-> Idle]
    /\ loc = [a \in Apps |-> NoLoc]
    /\ hist = << >>
    /\ call \in RiskCalls
    /\ views = NoViews
    /\ market = NoMarket

\* validate_trade(entry_price, stop_loss, take_profit) returns (ok, reason).
ValidateTrade ==
    /\ call.op = "risk" /\ call.valid = None
    /\ call' = [call EXCEPT !.valid =
                   Some(validate_trade(call.entry_price, call.stop_loss, call.take_profit))]
    /\ UNCHANGED <<db, now, tree, modwin, msg, pc, loc, hist, views, market>>

\* calculate_position_size(entry_price, stop_loss) returns the size.
CalculatePositionSize ==
    /\ call.op = "risk" /\ call.size = None
    /\ call' = [call EXCEPT !.size =
                   Some(calculate_position_size(call.entry_price, call.stop_loss))]
    /\ UNCHANGED <<db, now, tree, modwin, msg, pc, loc, hist, views, market>>

\* calculate_risk_metrics with the size of calculate_position_size, as
\* calculate_position calls it (lines 877-879); returns the dict or None.
CalculateRiskMetrics ==
    /\ call.op = "risk" /\ call.metrics = None
    /\ call' = [call EXCEPT !.metrics =
                   Some(calculate_risk_metrics(
                            calculate_position_size(call.entry_price, call.stop_loss),
                            call.entry_price, call.stop_loss, call.take_profit))]
    /\ UNCHANGED <<db, now, tree, modwin, msg, pc, loc, hist, views, market>>

NextRisk ==
    \/ ValidateTrade
    \/ CalculatePositionSize
    \/ CalculateRiskMetrics

SpecRisk == InitRisk /\ [][NextRisk]_vars

(* ------------------- StatisticsTab and ClosedTradesTab ------------------------ *)
\* float('inf')
Infinity == [raises |-> FALSE, num |-> 1, den |-> 0]
Zero == TrueDivide(0, 1)

\* SELECT ... FROM portfolio WHERE status = 'Closed'
ClosedIds(d) == { i \in Ids(d) : d[i].status = "Closed" }

RECURSIVE SumPnl(_, _)
\* sum(...) of the pnl column over the rows S
SumPnl(d, S) ==
    IF S = {} THEN 0
    ELSE LET i == CHOOSE x \in S : TRUE
         IN  Val(d[i].pnl) + SumPnl(d, S \ {i})

RECURSIVE MaxAbsPnl(_, _)
\* max(...) of |pnl| over the rows S, 0 for no rows
MaxAbsPnl(d, S) ==
    IF S = {} THEN 0
    ELSE LET i == CHOOSE x \in S : TRUE
             rest == MaxAbsPnl(d, S \ {i})
         IN  IF Abs(Val(d[i].pnl)) > rest THEN Abs(Val(d[i].pnl)) ELSE rest

\* Variant: a pnl of 0 is a win.
Profits_WithZero(d, trades) == { i \in trades : Val(d[i].pnl) >= 0 }

\* profits = [p for p in pnls if p > 0], as the rows they come from (line 1176)
Profits(d, trades) == { i \in trades : Val(d[i].pnl) > 0 }

\* Variant: a pnl of 0 is a loss.
Losses_WithZero(d, trades) == { i \in trades : Val(d[i].pnl) <= 0 }

\* losses = [abs(l) for l in pnls if l < 0], as the rows they come from (line 1177)
Losses(d, trades) == { i \in trades : Val(d[i].pnl) < 0 }

\* Variant: without losses the factor is 0.
profit_factor_ZeroWithoutLosses(sum_profits, sum_losses, losing_trades) ==
    IF losing_trades > 0 /\ sum_losses > 0
    THEN TrueDivide(sum_profits, sum_losses)
    ELSE Zero

\* Variant: without wins and without losses the factor is 0.
profit_factor_ZeroWithoutTrades(sum_profits, sum_losses, losing_trades) ==
    IF losing_trades > 0 /\ sum_losses > 0
    THEN TrueDivide(sum_profits, sum_losses)
    ELSE IF sum_profits = 0 THEN Zero ELSE Infinity

\* sum(profits) / sum(losses) if losses and sum(losses) > 0 else float('inf') (line 1187)
profit_factor(sum_profits, sum_losses, losing_trades) ==
    IF losing_trades > 0 /\ sum_losses > 0
    THEN TrueDivide(sum_profits, sum_losses)
    ELSE Infinity

\* Variant: the snapshot adds the trades to the counts already shown.
calculate_statistics_Incremental(d, shown) ==
    LET trades == ClosedIds(d)
        before == IF IsSet(shown) THEN Val(shown).total_trades ELSE 0
    IN  IF trades = {} THEN shown
        ELSE Some([ total_trades |-> before + Cardinality(trades),
                    winning_trades |-> Cardinality(Profits(d, trades)),
                    losing_trades |-> Cardinality(Losses(d, trades)),
                    win_rate |-> Zero, total_pnl |-> SumPnl(d, trades),
                    profit_factor |-> Infinity, avg_win |-> Zero, avg_loss |-> Zero,
                    largest_win |-> 0, largest_loss |-> 0 ])

\* calculate_statistics: what the labels show after the call, `shown` being what they
\* showed before.  No Closed row: return at line 1172, the labels stay.  A NULL pnl
\* raises at line 1176: error box, the labels stay.  avg_rr and avg_hold_time are left
\* out (lines 1195-1217 raise nothing on rows written by this program).
calculate_statistics(d, shown) ==
    LET trades == ClosedIds(d)
    IN  IF trades = {} \/ \E i \in trades : d[i].pnl = None
        THEN shown
        ELSE LET profits == Profits(d, trades)
                 losses == Losses(d, trades)
                 total_trades == Cardinality(trades)
                 winning_trades == Cardinality(profits)
                 losing_trades == Cardinality(losses)
                 sum_profits == SumPnl(d, profits)
                 sum_losses == -SumPnl(d, losses)
             IN  Some([ total_trades |-> total_trades,
                        winning_trades |-> winning_trades,
                        losing_trades |-> losing_trades,
                        win_rate |-> IF total_trades > 0
                                     THEN TrueDivide(winning_trades * 100, total_trades)
                                     ELSE Zero,
                        total_pnl |-> SumPnl(d, trades),
                        profit_factor |-> profit_factor(sum_profits, sum_losses,
                                                        losing_trades),
                        avg_win |-> IF profits # {}
                                    THEN TrueDivide(sum_profits, winning_trades)
                                    ELSE Zero,
                        avg_loss |-> IF losses # {}
                                     THEN TrueDivide(sum_losses, losing_trades)
                                     ELSE Zero,
                        largest_win |-> MaxAbsPnl(d, profits),
                        largest_loss |-> MaxAbsPnl(d, losses) ])

\* load_closed_trades: the tree is emptied and filled with the Closed rows (every
\* Closed row this program writes has its pnl set, so line 1044 does not raise).
load_closed_trades(d) == ClosedIds(d)

\* "Refresh Statistics" (line 1159), StatisticsTab.__init__ (line 1102).
CalculateStatistics ==
    /\ views' = [views EXCEPT !.statistics = calculate_statistics(db, @)]
    /\ msg' = IF \E i \in ClosedIds(db) : db[i].pnl = None THEN "Error" ELSE msg
    /\ UNCHANGED <<db, now, tree, modwin, pc, loc, hist, call, market>>

\* "Refresh" of the Closed Trades tab (line 1023), ClosedTradesTab.__init__ (line 996).
LoadClosedTrades ==
    /\ views' = [views EXCEPT !.closed_trades = load_closed_trades(db)]
    /\ UNCHANGED <<db, now, tree, modwin, msg, pc, loc, hist, call, market>>

\* Rows of a table the application is started on: at most MaxStatRows, each an open
\* position of 1 at 300 or the Closed lot of one, sold at one of StatExitPrices.
MaxStatRows == 3
StatExitPrices == {250, 300, 400, 500}

StatRows ==
    LET open == NewOpenRow("AAPL", 300, 240, 420, 1, 0, "Long")
    IN  {open} \cup
        { ClosedLotRow(open, 1, x, 1, PartialPnl("Long", 300, x, 1)) : x \in StatExitPrices }

\* The tabs after setup_ui(), before their first load (lines 995-996, 1101-1102).
InitStats ==
    /\ db \in UNION { [1 .. n -> StatRows] : n \in 0 .. MaxStatRows }
    /\ now = 2
    /\ tree = [a \in Apps |-> << >>]
    /\ modwin = [a \in Apps |-> {}]
    /\ msg = "none"
    /\ pc = [a \in Apps |-> Idle]
    /\ loc = [a \in Apps |-> NoLoc]
    /\ hist = [i \in DOMAIN db |-> [root |-> i, opened |-> 1]]
    /\ call = NoCall
    /\ views = NoViews
    /\ market = NoMarket

NextStats ==
    \/ CalculateStatistics
    \/ LoadClosedTrades

SpecStats == InitStats /\ [][NextStats]_vars

(* --------------- one instance with its Statistics and Closed Trades tabs ------- *)
\* TradingApp.refresh_all ("Refresh All"): the portfolio, the closed trades and the
\* statistics are reloaded, then the success box.
RefreshAll ==
    /\ pc[MainApp] = Idle
    /\ tree' = [tree EXCEPT ![MainApp] = OpenRows(db)]
    /\ views' = [statistics |-> calculate_statistics(db, views.statistics),
                 closed_trades |-> load_closed_trades(db)]
    /\ msg' = "Success"
    /\ UNCHANGED <<db, now, modwin, pc, loc, hist, call, market>>

\* The closes leave the tabs alone: execute_close_position asks
\* hasattr(self.master, 'statistics') and hasattr(self.master, 'closed_trades')
\* (lines 474-477), self.master being the ttk.Notebook the tracker was built on
\* (line 1294), which has neither attribute (they are TradingApp's, lines 1301-1302);
\* execute_partial_close has no such call.
NextViews ==
    \/ \E s \in TradeSetups : SaveTrade(MainApp, s)
    \/ \E id \in 1 .. MaxRecords, p \in MarketPrices : ClosePositionFull(MainApp, id, p)
    \/ \E id \in 1 .. MaxRecords, q \in DialogQuantities, p \in MarketPrices :
           ClosePositionPartial(MainApp, id, q, p)
    \/ CalculateStatistics
    \/ LoadClosedTrades
    \/ RefreshAll

SpecViews == Init /\ [][NextViews]_vars

(* ----------------------------- the ATR stop loss ------------------------------ *)
\* calculate_atr(symbol, period=14)
AtrPeriod == 14
\* Daily bars the feed returns for period='1mo': at most MaxBars.
MaxBars == 15
\* float nan, beside the quotients of TrueDivide
NaN == [nan |-> TRUE]

\* A bar of the history: high, low, close.
Bar(spread, i) == [high |-> 300 + spread + (i % 2), low |-> 300 - spread, close |-> 300 + (i % 2)]

Histories ==
    { [i \in 1 .. n |-> Bar(spread, i)] : n \in 0 .. MaxBars, spread \in {2, 5} }

Max(a, b) == IF a > b THEN a ELSE b

\* data['TR']: max over H-L, |H-PC|, |L-PC| (lines 228-232); the first bar has no
\* previous close, its two NaN are skipped by max(axis=1) and H-L remains.
TrueRange(history, i) ==
    LET hl == history[i].high - history[i].low
    IN  IF i = 1 THEN hl
        ELSE Max(hl, Max(Abs(history[i].high - history[i - 1].close),
                         Abs(history[i].low - history[i - 1].close)))

RECURSIVE SumTrueRange(_, _, _)
SumTrueRange(history, from, to) ==
    IF from > to THEN 0
    ELSE TrueRange(history, to) + SumTrueRange(history, from, to - 1)

\* calculate_atr: None for an empty frame; else the last value of
\* rolling(window=period).mean(), which is NaN while the frame has fewer than
\* `period` rows (min_periods defaults to the window).
calculate_atr(history) ==
    LET n == Len(history)
    IN  IF n = 0 THEN None
        ELSE IF n < AtrPeriod THEN Some(NaN)
        ELSE Some(TrueDivide(SumTrueRange(history, n - AtrPeriod + 1, n), AtrPeriod))

\* current_price -/+ atr * multiplier (lines 817-820); NaN stays NaN.
AtrStop(trade_type, current_price, atr, multiplier) ==
    IF atr = NaN THEN NaN
    ELSE IF trade_type = "Long"
         THEN TrueDivide(current_price * atr.den - atr.num * multiplier, atr.den)
         ELSE TrueDivide(current_price * atr.den + atr.num * multiplier, atr.den)

AtrCalls ==
    { [op |-> "atr", history |-> h, trade_type |-> t, entry_price |-> 300,
       multiplier |-> k, done |-> FALSE, atr_value_label |-> "Current ATR: ",
       stop_loss_var |-> None] :
          h \in Histories, t \in {"Long", "Short"}, k \in {1, 2} }

\* The calculator in ATR mode, a symbol and an entry price typed in.
InitAtr ==
    /\ db = << >>
    /\ now = 0
    /\ tree = [a \in Apps |-> << >>]
    /\ modwin = [a \in Apps |-> {}]
    /\ msg = "none"
    /\ pc = [a \in Apps |-> Idle]
    /\ loc = [a \in Apps |-> NoLoc]
    /\ hist = << >>
    /\ call \in AtrCalls
    /\ views = NoViews
    /\ market = NoMarket

\* calculate_atr_stop_loss: `atr is not None` lets NaN through; the label shows the
\* value and the stop loss entry is set from it.
CalculateAtrStopLoss ==
    /\ call.op = "atr" /\ ~call.done
    /\ LET atr == calculate_atr(call.history)
       IN  call' = IF IsSet(atr)
                   THEN [call EXCEPT !.done = TRUE,
                                     !.atr_value_label =
                                         IF Val(atr) = NaN THEN "Current ATR: $nan"
                                         ELSE "Current ATR: $value",
                                     !.stop_loss_var =
                                         Some(AtrStop(call.trade_type, call.entry_price,
                                                      Val(atr), call.multiplier))]
                   ELSE [call EXCEPT !.done = TRUE,
                                     !.atr_value_label = "ATR: Not Available"]
    /\ UNCHANGED <<db, now, tree, modwin, msg, pc, loc, hist, views, market>>

NextAtr == CalculateAtrStopLoss

SpecAtr == InitAtr /\ [][NextAtr]_vars

(* ------------------------------ the price cache ------------------------------ *)
\* time.time() between two lookups advances by one of Delays, up to MaxTime.
MaxTime == 122
Delays == {59, 60, 61}

NoLookup == [symbol |-> "none", price |-> None, fetched |-> FALSE]

\* A MarketDataManager just built: an empty cache.
InitPrices ==
    /\ db = << >>
    /\ now = 0
    /\ tree = [a \in Apps |-> << >>]
    /\ modwin = [a \in Apps |-> {}]
    /\ msg = "none"
    /\ pc = [a \in Apps |-> Idle]
    /\ loc = [a \in Apps |-> NoLoc]
    /\ hist = << >>
    /\ call = NoCall
    /\ views = NoViews
    /\ market = [op |-> "prices", cache |-> EmptyCache, time |-> 0, last |-> NoLookup]

\* One call of get_real_time_price; `last` keeps what it returned and whether
\* ticker.history was asked.
GetRealTimePrice(symbol, outcome) ==
    /\ market.op = "prices"
    /\ LET got == get_real_time_price(market.cache, symbol, outcome, market.time)
       IN  market' = [market EXCEPT !.cache = got.cache,
                                    !.last = [symbol |-> symbol, price |-> got.price,
                                              fetched |-> got.fetched]]
    /\ UNCHANGED <<db, now, tree, modwin, msg, pc, loc, hist, call, views>>

Elapse(delay) ==
    /\ market.op = "prices"
    /\ market.time + delay <= MaxTime
    /\ market' = [market EXCEPT !.time = @ + delay]
    /\ UNCHANGED <<db, now, tree, modwin, msg, pc, loc, hist, call, views>>

NextPrices ==
    \/ \E s \in Symbols, o \in FeedOutcomes : GetRealTimePrice(s, o)
    \/ \E delay \in Delays : Elapse(delay)

SpecPrices == InitPrices /\ [][NextPrices]_vars

(* --------------------------- the portfolio listing --------------------------- *)
\* Tables the tracker is started on: up to MaxRecords positions as save_trade
\* stores them, one of TradeSetups on one of Symbols each, saved one after another.
PortfolioRow(i, s, symbol) ==
    NewOpenRow(symbol, s.entry, s.stop, s.take,
               calculate_position_size(s.entry, s.stop), i - 1, s.type)

PortfolioTables ==
    UNION { { [i \in 1 .. n |-> PortfolioRow(i, setups[i], symbols[i])] :
                  setups \in [1 .. n -> TradeSetups], symbols \in [1 .. n -> Symbols] } :
            n \in 0 .. MaxRecords }

InitPortfolio ==
    /\ db \in PortfolioTables
    /\ now = Len(db)
    /\ tree = [a \in Apps |-> << >>]
    /\ modwin = [a \in Apps |-> {}]
    /\ msg = "none"
    /\ pc = [a \in Apps |-> Idle]
    /\ loc = [a \in Apps |-> NoLoc]
    /\ hist = [i \in DOMAIN db |-> [root |-> i, opened |-> db[i].quantity]]
    /\ call = NoCall
    /\ views = NoViews
    /\ market = [op |-> "portfolio", cache |-> EmptyCache, time |-> 0]

Feeds == [Symbols -> FeedOutcomes]

\* refresh of the tracker while the feed answers as `feed` says.
LoadPositions(feed) ==
    /\ market.op = "portfolio"
    /\ LET r == load_positions(db, market.cache, feed, market.time)
       IN  /\ tree' = [tree EXCEPT ![MainApp] = r.tree]
           /\ msg' = IF r.raised THEN "Error" ELSE msg
           /\ market' = [market EXCEPT !.cache = r.cache]
    /\ UNCHANGED <<db, now, modwin, pc, loc, hist, call, views>>

NextPortfolio == \E feed \in Feeds : LoadPositions(feed)

SpecPortfolio == InitPortfolio /\ [][NextPortfolio]_vars

(* -------------------------------- claims ------------------------------- *)
Roots == { i \in Ids(db) : hist[i].root = i }
LotsOf(r) == { i \in Ids(db) : hist[i].root = r /\ i # r }

RECURSIVE SumQuantity(_)
SumQuantity(S) ==
    IF S = {} THEN 0
    ELSE LET i == CHOOSE x \in S : TRUE
         IN  db[i].quantity + SumQuantity(S \ {i})

\* C1: after every completed partial or full close, the quantity of the remainder
\* (open or closed) plus the quantities of the Closed lots split off from it is the
\* quantity the position was opened with, and once a lot exists that is also the
\* remainder's original_quantity.
C1_QuantityConservation ==
    \A r \in Roots :
        /\ db[r].quantity + SumQuantity(LotsOf(r)) = hist[r].opened
        /\ \A i \in LotsOf(r) : db[i].status = "Closed"
        /\ LotsOf(r) # {} => db[r].original_quantity = Some(hist[r].opened)

\* C1 witness: a position split twice and then closed.
C1_Witness ==
    \E r \in Roots : db[r].status = "Closed" /\ Cardinality(LotsOf(r)) = 2

\* C2: every Closed row stores pnl = (exit - entry) * quantity when Long and
\* (entry - exit) * quantity when Short.
C2_PnlSigned ==
    \A i \in Ids(db) :
        db[i].status = "Closed" =>
            db[i].pnl = Some(IF db[i].trade_type = "Long"
                             THEN (Val(db[i].exit_price) - db[i].entry_price) * db[i].quantity
                             ELSE (db[i].entry_price - Val(db[i].exit_price)) * db[i].quantity)

\* C3: every row created with status Open has entry, stop and take profit that
\* validate_trade admits; a rejected trade creates no row.
C3_OpenOnlyAdmitted ==
    [][ \A i \in Ids(db') \ Ids(db) :
            db'[i].status = "Open" =>
                validate_trade(db'[i].entry_price, Val(db'[i].stop_loss),
                               Val(db'[i].take_profit)).ok ]_vars

\* C4: once a row is Closed no later operation changes any of its columns.
C4_ClosedIsTerminal ==
    [][ \A i \in Ids(db) : db[i].status = "Closed" => db'[i] = db[i] ]_vars

\* C5: a partial close of the whole current quantity ends in the state the full
\* close of the same id at the same price ends in: the same row Closed with the same
\* quantity, exit price and pnl, no row appended, no row of quantity 0 made.
C5_PartialOfAllIsFullClose ==
    [][ \A id \in 1 .. MaxRecords, q \in DialogQuantities, p \in MarketPrices :
            (ClosePositionPartial(MainApp, id, q, p) /\ q = db[id].quantity) =>
                /\ db' = ExecuteClosePosition(db, id, p, now).db
                /\ Len(db') = Len(db)
                /\ db'[id].status = "Closed"
                /\ db'[id].quantity = q
                /\ db'[id].exit_price = Some(p)
                /\ db'[id].pnl = Some(ClosePnl(db[id].entry_price, p, q))
                /\ \A i \in Ids(db') \ {id} : db'[i] = db[i]
                /\ \A i \in Ids(db') : db'[i].quantity > 0 \/ db[i].quantity = 0 ]_vars

\* C5 witness: the last box is the partial close's and no row is left open, so the
\* partial close took all that remained.
C5_Witness ==
    /\ msg = "Uspjeh"
    /\ db # << >>
    /\ \A i \in Ids(db) : db[i].status = "Closed"

\* C6: a partial close goes past its check only with 0 < close_quantity <= the
\* quantity the row holds when the operation executes, the row being Open;
\* otherwise it fails and writes nothing.
C6_PartialCloseChecksQuantity ==
    \A a \in Apps :
        (pc[a] \in {"pc_update", "cp_select"}) =>
            /\ 0 < loc[a].close_quantity
            /\ loc[a].close_quantity <= loc[a].row.quantity
            /\ loc[a].row.status = "Open"

\* C7: a full close of a row that is not Open when the operation reads it fails
\* and writes nothing.
C7_CloseOfClosedWritesNothing ==
    [][ \A a \in Apps :
            (FinishClose(a) /\ loc[a].row.status # "Open") => db' = db ]_vars

\* C8: every row of the ledger has quantity > 0.
C8_QuantityPositive ==
    \A i \in Ids(db) : db[i].quantity > 0

\* C9: in every committed state the remainder of a position is reduced exactly when
\* the Closed sibling of that reduction is present.
C9_SplitIsAtomic ==
    \A r \in Roots :
        /\ IsSet(db[r].original_quantity) <=> LotsOf(r) # {}
        /\ IsSet(db[r].original_quantity) =>
               db[r].quantity + SumQuantity(LotsOf(r)) = Val(db[r].original_quantity)

\* C10: mutations of one id are serialized, so when no handler is in flight no
\* quantity reduction is lost: remainder plus lots is the quantity opened.
C10_NoLostReduction ==
    (\A a \in Apps : pc[a] = Idle) =>
        \A r \in Roots : db[r].quantity + SumQuantity(LotsOf(r)) = hist[r].opened


\* C11: when a store write of a partial close fails, the ledger afterwards is the
\* ledger the operation started from (the row of the operation is again the row it
\* read, no row is added, the other rows are untouched) and the error box is shown.
C11_FailedWriteLeavesNoPartialWrite ==
    [][ \A a \in Apps :
            (PartialUpdateFails(a) \/ PartialInsertFails(a)) =>
                /\ db' = [db EXCEPT ![loc[a].id] = loc[a].row]
                /\ msg' = "Greska" ]_vars


\* The arguments of the call as validate_trade sees them.
CallRisk == Abs(call.entry_price - call.stop_loss)
CallReward == Abs(call.take_profit - call.entry_price)
\* account_balance * max_risk_per_trade, times 100.
Budget100 == AccountBalance * MaxRiskPerTradePct

\* C12: validate_trade rejects with the ratio reason every trade whose reward:risk
\* ratio is below 2, also when its risk is within the budget; it does not reject on
\* the ratio rule when the ratio is 2 or more; entry 150, stop 145, take profit 160
\* is admitted.
C12_RatioRule ==
    (call.op = "risk" /\ IsSet(call.valid) /\ CallRisk # 0) =>
        LET v == Val(call.valid)
        IN  /\ CallReward < 2 * CallRisk => (~v.ok /\ v.reason = "ratio")
            /\ CallReward >= 2 * CallRisk => v.reason # "ratio"
            /\ (call.entry_price = 150 /\ call.stop_loss = 145 /\ call.take_profit = 160)
                   => v.ok

\* C12 witness: a trade with ratio below 2 and risk within the budget was validated.
C12_Witness ==
    /\ call.op = "risk" /\ IsSet(call.valid)
    /\ CallRisk # 0 /\ CallReward < 2 * CallRisk /\ 100 * CallRisk <= Budget100

C14_StopEqualsEntry ==
    (call.op = "risk" /\ call.stop_loss = call.entry_price) =>
        /\ IsSet(call.valid) =>
               (~Val(call.valid).ok /\ Val(call.valid).reason = "error")
        /\ IsSet(call.metrics) =>
               /\ IsSet(Val(call.metrics))
               /\ ~Val(Val(call.metrics)).risk_reward_ratio.raises
               /\ Val(Val(call.metrics)).risk_reward_ratio.den # 0

\* C14 witness: both methods were called with stop = entry.
C14_Witness ==
    /\ call.op = "risk" /\ call.stop_loss = call.entry_price
    /\ IsSet(call.valid) /\ IsSet(call.metrics)

\* C15: calculate_position_size returns 0 when entry = stop and otherwise the
\* non-negative integer q with q * risk_per_share <= risk_amount <
\* (q + 1) * risk_per_share; it returns (never raises) and changes nothing else.
C15_SizeIsFloor ==
    [][ CalculatePositionSize =>
            LET q == Val(call'.size)
            IN  /\ IsSet(call'.size)
                /\ CallRisk = 0 => q = 0
                /\ CallRisk # 0 =>
                       /\ q \in Nat
                       /\ 100 * q * CallRisk <= Budget100
                       /\ Budget100 < 100 * (q + 1) * CallRisk
                /\ UNCHANGED <<db, now, tree, modwin, msg, pc, loc, hist, views, market>>
                /\ call' = [call EXCEPT !.size = call'.size] ]_vars

\* C15 witness: a size was computed that is positive and not an exact quotient.
C15_Witness ==
    /\ call.op = "risk" /\ IsSet(call.size)
    /\ Val(call.size) > 0
    /\ 100 * Val(call.size) * CallRisk < Budget100


\* C16: a partial close of less than the current quantity reduces the row's quantity
\* by exactly close_quantity, sets its original_quantity to the quantity before the
\* reduction only if it was NULL (a later split leaves it), keeps the row Open and
\* its other columns, and appends exactly one Closed row with quantity =
\* original_quantity = close_quantity and symbol, entry_price, stop_loss,
\* take_profit, entry_date and trade_type of the source; no other row changes.
C16_SplitReducesAndAppends ==
    [][ \A id \in 1 .. MaxRecords, q \in DialogQuantities, p \in MarketPrices :
            (ClosePositionPartial(MainApp, id, q, p) /\ q < db[id].quantity) =>
                /\ db'[id] = [ db[id] EXCEPT
                                 !.quantity = db[id].quantity - q,
                                 !.original_quantity =
                                     IF IsSet(db[id].original_quantity)
                                     THEN db[id].original_quantity
                                     ELSE Some(db[id].quantity) ]
                /\ db'[id].status = "Open"
                /\ Len(db') = Len(db) + 1
                /\ LET lot == db'[Len(db')]
                   IN  /\ lot.status = "Closed"
                       /\ lot.quantity = q
                       /\ lot.original_quantity = Some(q)
                       /\ lot.symbol = db[id].symbol
                       /\ lot.entry_price = db[id].entry_price
                       /\ lot.stop_loss = db[id].stop_loss
                       /\ lot.take_profit = db[id].take_profit
                       /\ lot.entry_date = db[id].entry_date
                       /\ lot.trade_type = db[id].trade_type
                       /\ lot.exit_price = Some(p)
                /\ \A i \in Ids(db) \ {id} : db'[i] = db[i] ]_vars

\* C16 witness: a position split twice, its remainder still open.
C16_Witness ==
    \E r \in Roots :
        /\ db[r].status = "Open"
        /\ Cardinality(LotsOf(r)) = 2
        /\ msg = "Uspjeh"

\* C17: every row is either Open with exit_price, exit_date and pnl all NULL, or
\* Closed with all three set.
C17_ExitFieldsWithStatus ==
    \A i \in Ids(db) :
        \/ /\ db[i].status = "Open"
           /\ db[i].exit_price = None /\ db[i].exit_date = None /\ db[i].pnl = None
        \/ /\ db[i].status = "Closed"
           /\ IsSet(db[i].exit_price) /\ IsSet(db[i].exit_date) /\ IsSet(db[i].pnl)

\* C17 witness: an open row beside a closed one while a handler is between two of
\* its statements.
C17_Witness ==
    /\ \E i, j \in Ids(db) : db[i].status = "Open" /\ db[j].status = "Closed"
    /\ \E a \in Apps : pc[a] # Idle


\* C18: save_modifications changes only stop_loss and take_profit of the row with
\* its id: quantity, original_quantity, pnl, status, the exit columns and the entry
\* columns of that row are the same before and after.
C18_ModifyFrame ==
    [][ \A id \in 1 .. MaxRecords, m \in ModifyInputs :
            SaveModifications(MainApp, id, m.stop, m.take) =>
                /\ db'[id].stop_loss = Some(m.stop)
                /\ db'[id].take_profit = Some(m.take)
                /\ db'[id].quantity = db[id].quantity
                /\ db'[id].original_quantity = db[id].original_quantity
                /\ db'[id].pnl = db[id].pnl
                /\ db'[id].status = db[id].status
                /\ db'[id].exit_price = db[id].exit_price
                /\ db'[id].exit_date = db[id].exit_date
                /\ db'[id].symbol = db[id].symbol
                /\ db'[id].entry_price = db[id].entry_price
                /\ db'[id].entry_date = db[id].entry_date
                /\ db'[id].trade_type = db[id].trade_type ]_vars

\* C18 witness: a row carries the stop loss and take profit typed into a Modify
\* window.
C18_Witness ==
    \E i \in Ids(db), m \in ModifyInputs :
        /\ db[i].stop_loss = Some(m.stop) /\ db[i].take_profit = Some(m.take)
        /\ hist[i].root = i

\* C19: no step changes trade_type, entry_price or entry_date of an existing row,
\* and no step removes a row.
C19_EntryFieldsFrozen ==
    [][ \A i \in Ids(db) :
            /\ i \in Ids(db')
            /\ db'[i].trade_type = db[i].trade_type
            /\ db'[i].entry_price = db[i].entry_price
            /\ db'[i].entry_date = db[i].entry_date ]_vars

\* C19 witness: a row that was split, modified and then closed.
C19_Witness ==
    \E i \in Ids(db), m \in ModifyInputs :
        /\ db[i].status = "Closed"
        /\ IsSet(db[i].original_quantity) /\ db[i].quantity < Val(db[i].original_quantity)
        /\ db[i].stop_loss = Some(m.stop)

\* A step of the one instance that is a full close, a partial close or a
\* modification of the row id.
FullCloseOn(id) == \E p \in MarketPrices : ClosePositionFull(MainApp, id, p)
PartialCloseOn(id) ==
    \E q \in DialogQuantities, p \in MarketPrices : ClosePositionPartial(MainApp, id, q, p)
ModificationOn(id) ==
    \E m \in ModifyInputs : SaveModifications(MainApp, id, m.stop, m.take)

\* C20: a full close, a partial close or a modification of one id leaves every
\* column of every other existing row unchanged; a partial close adds at most one
\* row, the others none; no step removes a row.  (Stated from the effect: a step
\* that changes another row is no operation on id, a step that adds a row is no
\* full close or modification, a step that adds two is no partial close.)
C20_OtherIdsUntouched ==
    [][ /\ Len(db') >= Len(db)
        /\ \A id \in 1 .. MaxRecords :
               /\ (\E i \in Ids(db) \ {id} : db'[i] # db[i]) =>
                      ~(FullCloseOn(id) \/ PartialCloseOn(id) \/ ModificationOn(id))
               /\ Len(db') # Len(db) => ~(FullCloseOn(id) \/ ModificationOn(id))
               /\ Len(db') > Len(db) + 1 => ~PartialCloseOn(id) ]_vars

\* C20 witness: the full close of a position beside two lots split from it.
C20_Witness ==
    /\ msg = "Success"
    /\ Len(db) = 3
    /\ \A i \in Ids(db) : db[i].status = "Closed"


\* The Closed rows with a positive, a negative and a zero pnl, and what the
\* Statistics tab shows.
Winners == { i \in ClosedIds(db) : Val(db[i].pnl) > 0 }
Losers == { i \in ClosedIds(db) : Val(db[i].pnl) < 0 }
Flat == { i \in ClosedIds(db) : Val(db[i].pnl) = 0 }
Shown == Val(views.statistics)

\* C21: the snapshot has winning_trades = number of Closed rows with pnl > 0,
\* losing_trades = number with pnl < 0, total_trades = number of all Closed rows,
\* total_pnl = sum of their pnl; a row with pnl = 0 is in total_trades and total_pnl
\* only: avg_win, avg_loss, largest_win and largest_loss are taken over the rows with
\* pnl > 0 and pnl < 0.
C21_Classification ==
    IsSet(views.statistics) =>
        /\ Shown.winning_trades = Cardinality(Winners)
        /\ Shown.losing_trades = Cardinality(Losers)
        /\ Shown.total_trades = Cardinality(ClosedIds(db))
        /\ Shown.total_trades = Cardinality(Winners) + Cardinality(Losers) + Cardinality(Flat)
        /\ Shown.total_pnl = SumPnl(db, ClosedIds(db))
        /\ Shown.avg_win = IF Winners = {} THEN Zero
                           ELSE TrueDivide(SumPnl(db, Winners), Cardinality(Winners))
        /\ Shown.avg_loss = IF Losers = {} THEN Zero
                            ELSE TrueDivide(-SumPnl(db, Losers), Cardinality(Losers))
        /\ \A i \in Winners : Val(db[i].pnl) <= Shown.largest_win
        /\ \A i \in Losers : -Val(db[i].pnl) <= Shown.largest_loss
        /\ Shown.largest_win \in {0} \cup { Val(db[i].pnl) : i \in Winners }
        /\ Shown.largest_loss \in {0} \cup { -Val(db[i].pnl) : i \in Losers }
        /\ Winners = {} => Shown.largest_win = 0
        /\ Losers = {} => Shown.largest_loss = 0

\* C21 witness: a snapshot of a win, a loss and a trade with pnl 0.
C21_Witness ==
    /\ IsSet(views.statistics)
    /\ Winners # {} /\ Losers # {} /\ Flat # {}

\* C22: profit_factor is the sum of the winning pnl over the sum of the absolute
\* losing pnl when there is a losing trade, and +infinity when there is none and
\* there is a winning trade; {+100, -50} gives 100 / 50.
C22_ProfitFactor ==
    IsSet(views.statistics) =>
        /\ Losers # {} =>
               Shown.profit_factor = TrueDivide(SumPnl(db, Winners), -SumPnl(db, Losers))
        /\ (Losers = {} /\ Winners # {}) => Shown.profit_factor = Infinity
        /\ (Cardinality(ClosedIds(db)) = 2 /\ SumPnl(db, Winners) = 100
                /\ SumPnl(db, Losers) = -50) =>
               /\ Shown.profit_factor = TrueDivide(100, 50)
               /\ Shown.win_rate = TrueDivide(100, 2)
               /\ Shown.avg_win = TrueDivide(100, 1)
               /\ Shown.avg_loss = TrueDivide(50, 1)

\* C22 witness: a snapshot of winning trades only.
C22_Witness ==
    /\ IsSet(views.statistics)
    /\ Losers = {} /\ Cardinality(Winners) = 2 /\ Flat = {}


\* What a statistics call on the ledger d shows when nothing was shown before.
StatisticsOf(d) == calculate_statistics(d, None)

\* C23: a statistics call writes nothing to the ledger and shows the snapshot of the
\* Closed rows the ledger holds at the call, whatever was shown before (so a second
\* call on the same ledger shows the same again); every Closed row, the lots of a
\* split position included, is one trade.
C23_StatisticsPure ==
    [][ (CalculateStatistics \/ RefreshAll) =>
            /\ db' = db
            /\ views'.statistics = StatisticsOf(db)
            /\ views'.statistics = calculate_statistics(db', views'.statistics)
            /\ ClosedIds(db) # {} =>
                   Val(views'.statistics).total_trades = Cardinality(ClosedIds(db)) ]_vars

\* C23 witness: the snapshot of a position closed in three lots, shown after an
\* earlier snapshot.
C23_Witness ==
    /\ IsSet(views.statistics)
    /\ Shown.total_trades = 3
    /\ Cardinality(Roots) = 1


\* C28: when a close that adds a Closed row (a full close, the lot of a partial close,
\* a partial close of the whole quantity) has completed, the Statistics tab and the
\* Closed Trades tab show the closed set that includes that row.
C28_ViewsFollowCloses ==
    [][ \A id \in 1 .. MaxRecords :
            ((FullCloseOn(id) \/ PartialCloseOn(id)) /\ ClosedIds(db') # ClosedIds(db)) =>
                /\ views'.closed_trades = ClosedIds(db')
                /\ views'.statistics = StatisticsOf(db') ]_vars


\* C29: when the closed set is not empty and has no losing trade, profit_factor is
\* +infinity, also when it has no winning trade (every pnl is 0).
C29_ProfitFactorWithoutTrades ==
    (IsSet(views.statistics) /\ ClosedIds(db) # {} /\ Losers = {}) =>
        Shown.profit_factor = Infinity

\* C29 witness: a snapshot of trades that all have pnl 0.
C29_Witness ==
    /\ IsSet(views.statistics)
    /\ Cardinality(Flat) = 2 /\ Winners = {} /\ Losers = {}

\* C30: win_rate is winning_trades / total_trades * 100 with every Closed row in
\* total_trades, a row with pnl 0 included, which is no loss; winning_trades +
\* losing_trades <= total_trades, with equality exactly when no Closed row has pnl 0.
C30_WinRate ==
    IsSet(views.statistics) =>
        /\ Shown.win_rate = TrueDivide(Cardinality(Winners) * 100, Cardinality(ClosedIds(db)))
        /\ Shown.total_trades = Cardinality(ClosedIds(db))
        /\ Shown.losing_trades = Cardinality(Losers)
        /\ Shown.winning_trades + Shown.losing_trades <= Shown.total_trades
        /\ (Shown.winning_trades + Shown.losing_trades = Shown.total_trades) <=> (Flat = {})

\* C30 witness: a snapshot of one win and one trade with pnl 0 (win_rate 50).
C30_Witness ==
    /\ IsSet(views.statistics)
    /\ Cardinality(Winners) = 1 /\ Cardinality(Flat) = 1 /\ Losers = {}
    /\ Shown.win_rate = TrueDivide(100, 2)


\* C27: when a position is closed, in lots and a final close, all at the same exit
\* price, the pnl of its Closed rows add up to the pnl a single full close of the
\* quantity opened stores at that price, for Long and for Short.
C27_SplitKeepsPnl ==
    \A r \in Roots :
        LET rows == {r} \cup LotsOf(r)
        IN  (/\ \A i \in rows : db[i].status = "Closed"
             /\ \A i \in rows : db[i].exit_price = db[r].exit_price
             /\ db[r].quantity + SumQuantity(LotsOf(r)) = hist[r].opened) =>
                SumPnl(db, rows) =
                    ClosePnl(db[r].entry_price, Val(db[r].exit_price), hist[r].opened)


\* C24: with fewer than AtrPeriod bars of history the ATR stop reports
\* "ATR: Not Available" and sets no stop loss.
C24_AtrNeedsFullWindow ==
    (call.op = "atr" /\ call.done /\ Len(call.history) < AtrPeriod) =>
        /\ call.atr_value_label = "ATR: Not Available"
        /\ call.stop_loss_var = None


\* C25: get_real_time_price returns the cached price without fetching if and only
\* if the cache holds an entry for the symbol younger than 60 seconds; otherwise it
\* fetches, and a fetched price is stored with the current time, so that every call
\* for the symbol in the next 60 seconds returns that price without fetching.
C25_PriceCache ==
    [][ \A s \in Symbols, o \in FeedOutcomes :
            GetRealTimePrice(s, o) =>
                LET young == /\ IsSet(market.cache[s])
                             /\ market.time - Val(market.cache[s]).timestamp < 60
                IN  /\ young <=> ~market'.last.fetched
                    /\ young => /\ market'.last.price = Some(Val(market.cache[s]).price)
                                /\ market'.cache = market.cache
                    /\ (~young /\ o.kind = "price") =>
                           /\ market'.last.price = Some(o.price)
                           /\ market'.cache[s] =
                                  Some([price |-> o.price, timestamp |-> market.time])
                           /\ \A later \in market.time .. market.time + 59,
                                 o2 \in FeedOutcomes :
                                  LET again == get_real_time_price(market'.cache, s, o2, later)
                                  IN  again.price = Some(o.price) /\ ~again.fetched
                    /\ (~young /\ o.kind # "price") =>
                           market'.last.price = None /\ market'.cache = market.cache ]_vars

\* A lookup at time 119 served from the entry fetched at time 60.
C25_Witness ==
    /\ market.op = "prices"
    /\ market.last.symbol = "AAPL" /\ ~market.last.fetched
    /\ IsSet(market.cache["AAPL"])
    /\ Val(market.cache["AAPL"]).timestamp = 60
    /\ market.time - Val(market.cache["AAPL"]).timestamp = 59

\* C26: in one load_positions pass every Open position whose symbol has an
\* available price is listed, however many other symbols have none, and the pass
\* does not end in an error.
C26_ListingSurvivesFailedLookups ==
    [][ \A feed \in Feeds :
            LoadPositions(feed) =>
                /\ \A i \in Ids(db) :
                       (/\ db[i].status = "Open"
                        /\ IsSet(get_real_time_price(market.cache, db[i].symbol,
                                                     feed[db[i].symbol], market.time).price))
                           => i \in DOMAIN tree'[MainApp]
                /\ msg' # "Error" ]_vars

====
